---- MODULE Spec2Model ----
(***************************************************************************)
(* BoidFlockers (src/src/model.py): the model container of the flocking    *)
(* epidemic simulation.  The constructor seeds the agents and records the  *)
(* first tally; step() runs one scheduler pass (every agent activated once *)
(* in a shuffled order) and appends the next tally.                        *)
(*                                                                         *)
(* Rates are percentages (0.3 is 30).  The continuous space is abstracted  *)
(* to the answer of the neighbour query: at each activation the space      *)
(* returns some set of other agents.                                       *)
(***************************************************************************)
EXTENDS Integers, Sequences, FiniteSets

\* ---------------------------------------------------------------- bounds
MaxPop == 6
MaxTicks == 1
MaxTicksLong == 2
MaxPopWide == 8
MaxTicksWide == 2

\* the number of agents the second loop of make_agents creates
Seeded == 5

\* population values handed to the constructor (one negative value included)
Populations == (0 - 1)..MaxPop
\* infection_rate and motality values handed to the constructor, in percent
\* (0.3 and 0.1 are the defaults; 150 stands for a rate above 1)
InfectionRates == {0, 30}
Motalities == {0, 150}
MotalitiesLong == {0, 10, 150}
MotalitiesWide == {100}

Status == {"susceptible", "infected", "recovered", "removed"}

VARIABLES
    population,      \* self.population
    infection_rate,  \* self.infection_rate (percent)
    motality,        \* self.motality (percent)
    agents,          \* self.schedule.agents, in order of schedule.add
    status_num,      \* self.status_num: four series
    time,            \* self.schedule.time
    running,         \* self.running
    pc,              \* "idle": between step() calls; "pass": inside schedule.step()
    pending,         \* positions (in agents) the current pass has not activated yet
    fresh,           \* history: agents that turned Infected during the current pass
    via              \* history: agents of fresh whose Infected neighbours were all in fresh

vars == <<population, infection_rate, motality, agents, status_num, time,
          running, pc, pending, fresh, via>>

\* ---------------------------------------------------------------- helpers
\* Python's range(a, b) as a sequence
Range(a, b) == [k \in 1..(IF b > a THEN b - a ELSE 0) |-> a + k - 1]

\* Boid(i, ..., status, ...): the fields of an agent the model reads
Boid(i, s) == [unique_id |-> i, status |-> s]

\* random.random() < p, with p in percent: the outcomes that can happen
Bernoulli(p) == IF p <= 0 THEN {FALSE} ELSE IF p >= 100 THEN {TRUE} ELSE BOOLEAN

\* number of registered agents whose status is s
CountStatus(ags, s) == Cardinality({k \in 1..Len(ags) : ags[k].status = s})

\* get_status_num with the susceptible branch counting every status but Infected
get_status_num_not_infected(ags, hist) ==
    [susceptible |-> Append(hist.susceptible,
                            Len(ags) - CountStatus(ags, "infected")),
     infected    |-> Append(hist.infected, CountStatus(ags, "infected")),
     recovered   |-> Append(hist.recovered, CountStatus(ags, "recovered")),
     removed     |-> Append(hist.removed, CountStatus(ags, "removed"))]

\* get_status_num with the recovered branch testing for "infected"
get_status_num_recovered_slip(ags, hist) ==
    [susceptible |-> Append(hist.susceptible, CountStatus(ags, "susceptible")),
     infected    |-> Append(hist.infected, CountStatus(ags, "infected")),
     recovered   |-> Append(hist.recovered, CountStatus(ags, "infected")),
     removed     |-> Append(hist.removed, CountStatus(ags, "removed"))]

\* get_status_num with the susceptible and infected counters swapped
get_status_num_swapped(ags, hist) ==
    [susceptible |-> Append(hist.susceptible, CountStatus(ags, "infected")),
     infected    |-> Append(hist.infected, CountStatus(ags, "susceptible")),
     recovered   |-> Append(hist.recovered, CountStatus(ags, "recovered")),
     removed     |-> Append(hist.removed, CountStatus(ags, "removed"))]

\* get_status_num storing the counts over the newest entry instead of appending
Overwrite(series, n) ==
    IF Len(series) = 0 THEN <<n>> ELSE [series EXCEPT ![Len(series)] = n]

get_status_num_overwrite(ags, hist) ==
    [susceptible |-> Overwrite(hist.susceptible, CountStatus(ags, "susceptible")),
     infected    |-> Overwrite(hist.infected, CountStatus(ags, "infected")),
     recovered   |-> Overwrite(hist.recovered, CountStatus(ags, "recovered")),
     removed     |-> Overwrite(hist.removed, CountStatus(ags, "removed"))]

\* get_status_num: count the four statuses and append one value to each series
get_status_num(ags, hist) ==
    [susceptible |-> Append(hist.susceptible, CountStatus(ags, "susceptible")),
     infected    |-> Append(hist.infected, CountStatus(ags, "infected")),
     recovered   |-> Append(hist.recovered, CountStatus(ags, "recovered")),
     removed     |-> Append(hist.removed, CountStatus(ags, "removed"))]

\* self.status_num as __init__ leaves it before make_agents
EmptyStatusNum ==
    [susceptible |-> <<>>, infected |-> <<>>, recovered |-> <<>>, removed |-> <<>>]

\* make_agents: the agents registered with the scheduler, in creation order
SusceptibleLoop(pop) ==
    [k \in 1..Len(Range(0, pop - Seeded)) |->
        Boid(Range(0, pop - Seeded)[k], "susceptible")]

\* the second loop numbering its agents from 0
InfectedLoopFromZero(pop) ==
    [k \in 1..Len(Range(0, Seeded)) |-> Boid(Range(0, Seeded)[k], "infected")]

InfectedLoop(pop) ==
    [k \in 1..Len(Range(pop - Seeded, pop)) |->
        Boid(Range(pop - Seeded, pop)[k], "infected")]

make_agents(pop) == SusceptibleLoop(pop) \o InfectedLoop(pop)

\* ---------------------------------------------------------------- Boid.step
\* the statuses an activation can leave an agent in: s its status, k the number
\* of Infected agents among the neighbours the space returned
BoidStatusStep(s, k, irate, mrate) ==
    CASE s = "susceptible" ->
            {"infected" : t \in {b \in Bernoulli(irate) : b /\ k > 0}}
            \cup {"susceptible" : t \in {b \in Bernoulli(irate) : ~b \/ k = 0}}
      [] s = "infected" ->
            {"removed" : t \in {b \in Bernoulli(mrate) : b}}
            \cup {r \in {"recovered", "infected"} : FALSE \in Bernoulli(mrate)}
      [] OTHER -> {s}

\* the Infected neighbours as they were when the pass began (simultaneous update)
InfectedInAtPassStart(ags, nbrs) ==
    {j \in nbrs : ags[j].status = "infected" /\ j \notin fresh}

InfectedIn(ags, nbrs) == {j \in nbrs : ags[j].status = "infected"}

InfectedAmong(ags, nbrs) == Cardinality(InfectedIn(ags, nbrs))

\* the transition Susceptible -> Infected
Infects(old, new) == old = "susceptible" /\ new = "infected"

\* ---------------------------------------------------------------- actions
InitWith(pops, mots) ==
    /\ population \in pops
    /\ infection_rate \in InfectionRates
    /\ motality \in mots
    /\ agents = make_agents(population)
    /\ status_num = get_status_num(agents, EmptyStatusNum)
    /\ time = 0
    /\ running = TRUE
    /\ pc = "idle"
    /\ pending = {}
    /\ fresh = {}
    /\ via = {}

Init == InitWith(Populations, Motalities)

\* step(): schedule.step() begins, the shuffled list holds every agent
BeginStep(maxTicks) ==
    /\ pc = "idle"
    /\ time < maxTicks
    /\ pc' = "pass"
    /\ pending' = 1..Len(agents)
    /\ UNCHANGED <<population, infection_rate, motality, agents, status_num,
                   time, running, fresh, via>>

\* the next agent of the shuffled list is activated with the neighbours nbrs
ActivateWith(i, nbrs) ==
    /\ pc = "pass"
    /\ i \in pending
    /\ \E s \in BoidStatusStep(agents[i].status, InfectedAmong(agents, nbrs),
                               infection_rate, motality) :
          /\ agents' = [agents EXCEPT ![i].status = s]
          /\ fresh' = IF Infects(agents[i].status, s) THEN fresh \cup {i} ELSE fresh
          /\ via' = IF Infects(agents[i].status, s) /\ InfectedIn(agents, nbrs) \subseteq fresh
                    THEN via \cup {i} ELSE via
    /\ pending' = pending \ {i}
    /\ UNCHANGED <<population, infection_rate, motality, status_num, time,
                   running, pc>>

Activate ==
    \E i \in pending : \E nbrs \in SUBSET InfectedIn(agents, (1..Len(agents)) \ {i}) :
        ActivateWith(i, nbrs)

\* step() returning after the pass without get_status_num()
EndStepNoTally ==
    /\ pc = "pass"
    /\ pending = {}
    /\ time' = time + 1
    /\ pc' = "idle"
    /\ fresh' = {}
    /\ via' = {}
    /\ UNCHANGED <<population, infection_rate, motality, agents, status_num,
                   running, pending>>

\* the pass is complete: the tick counter advances and step() appends the tally
EndStep ==
    /\ pc = "pass"
    /\ pending = {}
    /\ time' = time + 1
    /\ status_num' = get_status_num(agents, status_num)
    /\ pc' = "idle"
    /\ fresh' = {}
    /\ via' = {}
    /\ UNCHANGED <<population, infection_rate, motality, agents, running, pending>>

Next == BeginStep(MaxTicks) \/ Activate \/ EndStep

Spec == Init /\ [][Next]_vars

\* longer runs of the seeded agents alone, the default motality included
InitLong == InitWith({Seeded}, MotalitiesLong)

NextLong == BeginStep(MaxTicksLong) \/ Activate \/ EndStep

SpecLong == InitLong /\ [][NextLong]_vars

\* a larger population, two agents start Susceptible; motality 1, so that an
\* Infected agent is Removed at its next activation
InitWide == InitWith({MaxPopWide}, MotalitiesWide)

NextWide == BeginStep(MaxTicksWide) \/ Activate \/ EndStep

SpecWide == InitWide /\ [][NextWide]_vars

\* ---------------------------------------------------------------- properties
HistLen == Len(status_num.susceptible)

Tally(n) == <<status_num.susceptible[n], status_num.infected[n],
              status_num.recovered[n], status_num.removed[n]>>

Min(a, b) == IF a < b THEN a ELSE b

Others(i) == (1..Len(agents)) \ {i}

\* C1: for every population the constructor accepts and after any number of
\* step() calls, the four counts of every tally in the history sum to population.
C1_TallySumsToPopulation ==
    \A n \in 1..HistLen :
        status_num.susceptible[n] + status_num.infected[n]
            + status_num.recovered[n] + status_num.removed[n] = population

\* C2: after initialization with population >= 0 exactly min(5, population)
\* agents, the last ones created, are Infected and the others Susceptible; the
\* initial tally is (population - min(5, population), min(5, population), 0, 0).
C2_InitialSeeding ==
    population >= 0 =>
        /\ Tally(1) = <<population - Min(5, population), Min(5, population), 0, 0>>
        /\ (time = 0 /\ pc = "idle") =>
              /\ Len(agents) = population
              /\ \A k \in 1..Len(agents) :
                    agents[k].status =
                        IF k > population - Min(5, population)
                        THEN "infected" ELSE "susceptible"

\* C3 (as stated): with population = 2 and infection_rate = 0 the tally is
\* (2,0,0,0) initially and after every step().
C3_PopTwoStaysAllSusceptible ==
    (population = 2 /\ infection_rate = 0) =>
        \A n \in 1..HistLen : Tally(n) = <<2, 0, 0, 0>>

\* C3 (amended): with infection_rate = 0 no agent leaves Susceptible: the
\* susceptible count is the same in the initial tally, in every later tally and
\* among the agents at any moment.
C3_NoSpontaneousInfection ==
    infection_rate = 0 =>
        /\ \A n \in 1..HistLen : status_num.susceptible[n] = status_num.susceptible[1]
        /\ CountStatus(agents, "susceptible") = status_num.susceptible[1]

C3_Witness ==
    /\ infection_rate = 0
    /\ time >= 1
    /\ pc = "idle"
    /\ CountStatus(agents, "susceptible") >= 1
    /\ status_num.infected[1] >= 1

\* C4: Recovered and Removed are absorbing: an agent with one of these statuses
\* keeps it in every later state, and the recovered and removed counts of the
\* history never decrease from one entry to the next.
C4_HistoryNonDecreasing ==
    \A n \in 1..(HistLen - 1) :
        /\ status_num.recovered[n] <= status_num.recovered[n + 1]
        /\ status_num.removed[n] <= status_num.removed[n + 1]

C4_AbsorbingStep ==
    \A k \in 1..Len(agents) :
        agents[k].status \in {"recovered", "removed"} =>
            /\ k \in 1..Len(agents')
            /\ agents'[k].status = agents[k].status

C4_Absorbing == []C4_HistoryNonDecreasing /\ [][C4_AbsorbingStep]_vars

\* every agent entered the current pass Recovered or Removed, and all of them
\* have been activated again
C4_Witness ==
    /\ pc = "pass"
    /\ pending = {}
    /\ time >= 1
    /\ status_num.susceptible[HistLen] = 0
    /\ status_num.infected[HistLen] = 0
    /\ status_num.recovered[HistLen] >= 1
    /\ status_num.removed[HistLen] >= 1

\* C5: the history is append-only: a step() call runs one scheduler pass and then
\* appends exactly one tally, the counts of the statuses after that pass; the
\* entries already in the history stay as they are.
C5_AppendStep ==
    \/ status_num' = status_num
    \/ /\ pc = "pass"
       /\ pending = {}
       /\ agents' = agents
       /\ status_num' =
            [susceptible |-> Append(status_num.susceptible,
                                    CountStatus(agents', "susceptible")),
             infected    |-> Append(status_num.infected,
                                    CountStatus(agents', "infected")),
             recovered   |-> Append(status_num.recovered,
                                    CountStatus(agents', "recovered")),
             removed     |-> Append(status_num.removed,
                                    CountStatus(agents', "removed"))]

C5_AppendOnly == [][C5_AppendStep]_vars

C5_Witness ==
    /\ pc = "idle"
    /\ time >= 2
    /\ Tally(HistLen) # Tally(HistLen - 1)
    /\ Tally(HistLen - 1) # Tally(1)

\* C6: in each step() every registered agent is activated exactly once before the
\* pass completes; the tick counter starts at 0, never decreases and grows by 1
\* per completed pass, so after n step() calls it is n and the history holds
\* n + 1 tallies.
C6_TickAndHistory ==
    /\ time >= 0
    /\ Len(status_num.susceptible) = time + 1
    /\ Len(status_num.infected) = time + 1
    /\ Len(status_num.recovered) = time + 1
    /\ Len(status_num.removed) = time + 1

C6_PassStep ==
    /\ \/ time' = time
       \/ time' = time + 1 /\ pc = "pass" /\ pending = {}
    /\ (pc = "idle" /\ pc' = "pass") => pending' = 1..Len(agents)
    /\ (pc = "pass" /\ pc' = "pass") =>
          \E i \in pending :
              /\ pending' = pending \ {i}
              /\ \A j \in Others(i) : agents'[j] = agents[j]
    /\ (pc = "pass" /\ pc' = "idle") => pending = {}

C6_OncePerTick == []C6_TickAndHistory /\ [][C6_PassStep]_vars

C6_Witness == pc = "idle" /\ time >= 2

\* C7: constructing the model with population < 0 or with a mortality or
\* infection_rate outside [0,1] ends in an error: no agents are created, no
\* tally is recorded and no usable model is reachable.
C7_InvalidParametersRejected ==
    (population < 0 \/ infection_rate \notin 0..100 \/ motality \notin 0..100) =>
        /\ running = FALSE
        /\ agents = <<>>
        /\ status_num = EmptyStatusNum

\* C8: a Susceptible agent becomes Infected during its activation only if an
\* Infected agent is among its neighbours at that activation; with no Infected
\* neighbour it stays Susceptible; and the susceptible count of the history never
\* increases from one entry to the next.
C8_SusceptibleNonIncreasing ==
    \A n \in 1..(HistLen - 1) :
        status_num.susceptible[n + 1] <= status_num.susceptible[n]

C8_InfectionStep ==
    \A i \in 1..Len(agents) :
        agents[i].status = "susceptible" =>
            /\ agents'[i].status \in {"susceptible", "infected"}
            /\ agents'[i].status = "infected" =>
                  /\ \E nbrs \in SUBSET Others(i) :
                        /\ InfectedAmong(agents, nbrs) >= 1
                        /\ ActivateWith(i, nbrs)
                  /\ \A nbrs \in SUBSET Others(i) :
                        InfectedAmong(agents, nbrs) = 0 => ~ActivateWith(i, nbrs)

C8_InfectionNeedsInfectedNeighbour ==
    []C8_SusceptibleNonIncreasing /\ [][C8_InfectionStep]_vars

\* an agent was infected in an earlier tick and one stayed Susceptible
C8_Witness ==
    /\ pc = "idle"
    /\ time >= 1
    /\ status_num.susceptible[HistLen] < status_num.susceptible[1]

\* C9: activations within a tick are sequential: one agent is activated at a
\* time, and an agent activated later reads the statuses written earlier in the
\* same tick, so a Susceptible agent can be infected by a neighbour that itself
\* became Infected earlier in that tick.
C9_ReadsCurrentStatus ==
    \A i \in pending : \A j \in fresh :
        (/\ pc = "pass"
         /\ infection_rate > 0
         /\ agents[i].status = "susceptible"
         /\ agents[j].status = "infected")
            => ENABLED (ActivateWith(i, {j}) /\ agents'[i].status = "infected")

C9_OneActivationStep ==
    agents' # agents =>
        /\ pc = "pass"
        /\ Len(agents') = Len(agents)
        /\ \E i \in pending :
              /\ pending' = pending \ {i}
              /\ \A j \in Others(i) : agents'[j] = agents[j]

C9_SequentialActivation == []C9_ReadsCurrentStatus /\ [][C9_OneActivationStep]_vars

\* an agent was infected in this pass by neighbours infected in this pass
C9_Witness == via # {}

\* C10: no two agents registered by make_agents share a unique id, whatever the
\* population, and the registered agents and their ids are the same after any
\* sequence of step() calls.
Ids(ags) == [k \in 1..Len(ags) |-> ags[k].unique_id]

C10_UniqueIds ==
    /\ \A a \in 1..Len(agents) : \A b \in 1..Len(agents) :
          a # b => agents[a].unique_id # agents[b].unique_id
    /\ Ids(agents) = Range(0, population - Seeded) \o Range(population - Seeded, population)

C10_Witness ==
    /\ pc = "idle"
    /\ time >= 1
    /\ population > Seeded
    /\ \E k \in 1..Len(agents) : agents[k].status # make_agents(population)[k].status

====
